---- MODULE Spec2Model ----
(***************************************************************************)
(* Wallet login of the router: the in-memory nonce store                   *)
(* (common/walletnonce.go), the wallet JWT codec (common/jwt_wallet.go)    *)
(* and the handlers of the auth controller (WalletNonce, WalletLogin,      *)
(* WalletBind, WalletChallengeProto, WalletVerifyProto,                    *)
(* WalletRefreshToken).  Every request is a little process: one step per   *)
(* access to shared state (the nonce map under its mutex, one query or     *)
(* update of the user table, the session), so that requests interleave     *)
(* exactly where goroutines of the server can.                             *)
(***************************************************************************)
EXTENDS Integers, Sequences, FiniteSets, TLC

VARIABLES
    now,             \* time.Now(), in ticks of the clock (see Second)
    config,          \* package config: the wallet settings
    walletNonceMap,  \* the nonce store: a set of rows (key, Nonce, Message, ExpireAt)
    issued,          \* every challenge ever generated (history): rows (Nonce, Message)
    users,           \* the user table: id -> row
    sessions,        \* user ids for which a wallet handler saved a session
    tokens,          \* every wallet JWT issued so far
    auths,           \* the successful verify and bind requests, in order (history)
    admin,           \* status changes the administrator has made (history)
    refresh,         \* the last WalletRefreshToken call: request and response
    minted,          \* the GenerateWalletJWT calls of the codec's caller (history)
    verified,        \* the last VerifyWalletJWT call of the codec's caller
    recovered,       \* the last recoverAddress call of the verifier's caller
    pc,              \* per request: where its handler stands
    handler,         \* per request: which handler serves it
    addr,            \* per request: strings.ToLower(req.Address)
    chain,           \* per request: req.ChainId
    entry,           \* per request: the nonce entry verifyWalletRequest read
    user,            \* per request: the handler's local user
    exist,           \* per request: WalletBind's local "exist"
    result,          \* per request: the response
    token,           \* per request: the token of the response
    consumes,        \* per request: calls of ConsumeWalletNonce made (history)
    saved,           \* per request: SetupSession saved a session (history)
    before,          \* per request: the user table when the request arrived (history)
    depth            \* per request: findOrCreateWalletUser frames entered (history)

vars == <<now, config, walletNonceMap, issued, users, sessions, tokens, auths, admin,
          refresh, minted, verified, recovered, pc, handler, addr, chain, entry, user,
          exist, result, token, consumes, saved, before, depth>>

(***************************************************************************)
(* Bounds of the model.                                                    *)
(***************************************************************************)
MaxTime == 2      \* minutes the clock of the nonce store runs
MaxIssue == 2     \* challenges generated in one run
MaxUsers == 3     \* rows the user table can hold
MaxAdmin == 1     \* status changes by the administrator in one run
MaxRefresh == 1   \* refresh requests in one run
MaxMint == 1      \* tokens the codec's caller mints in one run
MaxTick == 3      \* ticks the codec's clock runs past the hour
MaxDepth == 5     \* findOrCreateWalletUser frames one request may enter

Reqs == {"r1", "r2"}   \* the handler frames that serve verify and bind requests
FirstReq == "r1"       \* the frames being alike, a request takes r1 when both are free

(***************************************************************************)
(* Values.                                                                 *)
(***************************************************************************)
\* time.Duration: the clock ticks twice a second, which is as fine as the
\* model needs to tell a time.Time from its value cut to whole seconds.
Second == 2
Minute == 60 * Second
Hour == 60 * Minute

\* Addresses as clients spell them; BadAddr is no 20-byte hex address.
Addrs == {"0xaa", "0xAA", "0xbb"}
BadAddr == "0xzz"
NoAddr == "nil"            \* a nil *string (SQL NULL)
Junk == "0x00"             \* what recovery yields for a signature over another message

\* strings.ToLower
ToLower(s) ==
    CASE s = "0xAA" -> "0xaa"
      [] s = "0xBB" -> "0xbb"
      [] OTHER -> s

LowerAddrs == {ToLower(a) : a \in Addrs}

\* strings.TrimSpace, on the chain ids of the model
TrimSpace(s) ==
    CASE s = " 1" -> "1"
      [] OTHER -> s

ChainIds == {"", "1"}

UserStatusEnabled == "enabled"
UserStatusDisabled == "disabled"
UserStatusDeleted == "deleted"
Statuses == {UserStatusEnabled, UserStatusDisabled, UserStatusDeleted}

RoleCommonUser == "common"
RoleRootUser == "root"

UserIds == 1..MaxUsers
RootId == 1                \* the row with role = RoleRootUser
NoId == 0                  \* session.Get("id") == nil; the zero Id of a model.User{}

NoNonce == 0               \* the empty nonce string

\* The message to sign, field by field (GenerateWalletNonce builds the string).
NoMsg == [Prefix |-> "", Nonce |-> NoNonce, Address |-> "", IssuedAt |-> 0, ChainId |-> ""]

\* walletNonceValue{}, with the key of its row
NoEntry == [key |-> "", Nonce |-> NoNonce, Message |-> NoMsg, ExpireAt |-> 0]

\* the recovery id of the signatures the key of wallet w makes
RecId(w) == IF w = "0xaa" THEN 0 ELSE 1

\* A signature as the client sends it: whether the string is hex, the bytes
\* it decodes to, its last byte v, and the wallet `signer` whose key made r
\* and s over `msg`.  NoSig is the empty string, BadSig a string that is not
\* hex; a wallet writes v as 27 plus the recovery id.
NoSig == [hex |-> TRUE, len |-> 0, v |-> 0, signer |-> "", msg |-> NoMsg]
BadSig == [hex |-> FALSE, len |-> 0, v |-> 0, signer |-> "", msg |-> NoMsg]
Sign(w, m) == [hex |-> TRUE, len |-> 65, v |-> 27 + RecId(w), signer |-> w, msg |-> m]

\* model.User{}
NoUser == [Id |-> NoId, Status |-> "", Role |-> "", WalletAddress |-> NoAddr]

\* The empty token string, and WalletClaims
NoToken == [UserID |-> NoId, WalletAddress |-> "", ExpiresAt |-> 0, key |-> ""]

\* A request body that failed to decode leaves the zero walletLoginRequest.
BadBody == [Address |-> "", Signature |-> NoSig, Nonce |-> NoNonce, ChainId |-> "", ok |-> FALSE]

(***************************************************************************)
(* The nonce store, common/walletnonce.go.                                 *)
(***************************************************************************)
walletNonceTTL == 10 * Minute

getWalletNonceTTL(cfg) ==
    IF cfg.WalletNonceTTLMinutes <= 0 THEN walletNonceTTL
    ELSE cfg.WalletNonceTTLMinutes * Minute

\* now.After(entry.ExpireAt)
After(t, e) == t > e

\* a sweep that removes nothing (a fault the properties must catch)
cleanupNothing(m, t) == m

cleanupWalletNonces(m, t) == {e \in m : ~After(t, e.ExpireAt)}

\* a store that appends instead of overwriting (a fault the properties must catch)
MapAppend(m, k, v) == m \cup {v}

\* walletNonceMap[addr] = v
MapPut(m, k, v) == {e \in m : e.key # k} \cup {v}

WalletMessage(address, messagePrefix, chainId, nonce, t) ==
    [Prefix |-> messagePrefix, Nonce |-> nonce, Address |-> address,
     IssuedAt |-> t, ChainId |-> chainId]

GenerateWalletNonce(m, cfg, address, messagePrefix, chainId, nonce, t) ==
    LET k == ToLower(address)
        message == WalletMessage(address, messagePrefix, chainId, nonce, t)
        v == [key |-> k, Nonce |-> nonce, Message |-> message,
              ExpireAt |-> t + getWalletNonceTTL(cfg)]
    IN  cleanupWalletNonces(MapPut(m, k, v), t)

\* the rows a lookup of walletNonceMap[key] can see
MapRows(m, k) == {e \in m : e.key = k}

\* a lookup under the address as it is spelled (a fault the properties must
\* catch)
GetWalletNonceAsSpelled(m, address, t) ==
    LET rows == MapRows(m, address)
    IN  IF rows = {} THEN [ok |-> FALSE, entry |-> NoEntry]
        ELSE LET e == CHOOSE x \in rows : TRUE
             IN  IF After(t, e.ExpireAt) THEN [ok |-> FALSE, entry |-> NoEntry]
                 ELSE [ok |-> TRUE, entry |-> e]

\* a lookup that never tests the expiry (a fault the properties must catch)
GetWalletNonceUnexpired(m, address, t) ==
    LET rows == MapRows(m, ToLower(address))
    IN  IF rows = {} THEN [ok |-> FALSE, entry |-> NoEntry]
        ELSE [ok |-> TRUE, entry |-> CHOOSE x \in rows : TRUE]

GetWalletNonce(m, address, t) ==
    LET rows == MapRows(m, ToLower(address))
    IN  IF rows = {} THEN [ok |-> FALSE, entry |-> NoEntry]
        ELSE LET e == CHOOSE x \in rows : TRUE
             IN  IF After(t, e.ExpireAt) THEN [ok |-> FALSE, entry |-> NoEntry]
                 ELSE [ok |-> TRUE, entry |-> e]

\* a consume that empties the map (a fault the properties must catch)
ConsumeEveryNonce(m, address) == {}

\* a consume that deletes nothing (a fault the properties must catch)
KeepWalletNonce(m, address) == m

ConsumeWalletNonce(m, address) == {e \in m : e.key # ToLower(address)}

(***************************************************************************)
(* The wallet JWT, common/jwt_wallet.go.  A token is its claims and the    *)
(* secret its HMAC was made with.                                          *)
(***************************************************************************)
\* jwt.NewNumericDate: a NumericDate holds the time cut to jwt.TimePrecision,
\* one second
NewNumericDate(t) == t - (t % Second)

\* an issuance that signs with the first fallback secret when the primary one
\* is empty (a fault the properties must catch)
GenerateWalletJWTAnySecret(cfg, userID, walletAddress, t) ==
    LET expiresAt == t + cfg.WalletJWTExpireHours * Hour
        secret == IF cfg.WalletJWTSecret # "" \/ cfg.WalletJWTFallbackSecrets = <<>>
                  THEN cfg.WalletJWTSecret
                  ELSE Head(cfg.WalletJWTFallbackSecrets)
    IN  IF secret = ""
        THEN [err |-> TRUE, token |-> NoToken, expiresAt |-> 0]
        ELSE [err |-> FALSE,
              token |-> [UserID |-> userID, WalletAddress |-> walletAddress,
                         ExpiresAt |-> NewNumericDate(expiresAt), key |-> secret],
              expiresAt |-> expiresAt]

\* the token, and the expiresAt returned beside it
GenerateWalletJWT(cfg, userID, walletAddress, t) ==
    LET expiresAt == t + cfg.WalletJWTExpireHours * Hour
    IN  IF cfg.WalletJWTSecret = ""
        THEN [err |-> TRUE, token |-> NoToken, expiresAt |-> 0]
        ELSE [err |-> FALSE,
              token |-> [UserID |-> userID, WalletAddress |-> walletAddress,
                         ExpiresAt |-> NewNumericDate(expiresAt),
                         key |-> cfg.WalletJWTSecret],
              expiresAt |-> expiresAt]

\* jwt.ParseWithClaims under one secret: the HMAC matches and the token has
\* not expired (jwt/v5: valid while now is before exp)
ParseWithClaims(tok, sec, t) == tok.key = sec /\ t < tok.ExpiresAt

\* a verification that stops at the first empty secret instead of skipping
\* it (a fault the properties must catch)
verifyUntilEmpty(tok, secrets, t) ==
    IF \E i \in 1..Len(secrets) :
           /\ ParseWithClaims(tok, secrets[i], t)
           /\ \A j \in 1..i : secrets[j] # ""
    THEN [err |-> FALSE, claims |-> tok]
    ELSE [err |-> TRUE, claims |-> NoToken]

\* a verification that tries the first secret only (a fault the properties
\* must catch)
verifyWithPrimary(tok, secrets, t) ==
    IF secrets # <<>> /\ Head(secrets) # "" /\ ParseWithClaims(tok, Head(secrets), t)
    THEN [err |-> FALSE, claims |-> tok]
    ELSE [err |-> TRUE, claims |-> NoToken]

RECURSIVE verifyWithSecrets(_, _, _)
verifyWithSecrets(tok, secrets, t) ==
    IF secrets = <<>> THEN [err |-> TRUE, claims |-> NoToken]
    ELSE IF Head(secrets) # "" /\ ParseWithClaims(tok, Head(secrets), t)
         THEN [err |-> FALSE, claims |-> tok]
         ELSE verifyWithSecrets(tok, Tail(secrets), t)

VerifyWalletJWT(cfg, tok, t) ==
    verifyWithSecrets(tok, <<cfg.WalletJWTSecret>> \o cfg.WalletJWTFallbackSecrets, t)

(***************************************************************************)
(* The user table (package model) as the handlers use it.                  *)
(***************************************************************************)
Rows(tbl) == {u \in UserIds : tbl[u].exists}

IsWalletAddressAlreadyTaken(tbl, a) ==
    \E u \in Rows(tbl) : tbl[u].WalletAddress = a

\* the local model.User a query fills from row u
Fill(tbl, u) ==
    [Id |-> u, Status |-> tbl[u].Status, Role |-> tbl[u].Role,
     WalletAddress |-> tbl[u].WalletAddress]

\* First(): the matching row with the least id
FillUserByWalletAddress(tbl, a) ==
    LET hit == {u \in Rows(tbl) : tbl[u].WalletAddress = a}
    IN  IF hit = {} THEN [err |-> TRUE, user |-> NoUser]
        ELSE [err |-> FALSE,
              user |-> Fill(tbl, CHOOSE u \in hit : \A v \in hit : u <= v)]

FillUserById(tbl, id) ==
    IF id \in Rows(tbl) THEN [err |-> FALSE, user |-> Fill(tbl, id)]
    ELSE [err |-> TRUE, user |-> NoUser]

\* DB.Model(&u).Update("wallet_address", v), and user.Update(false) of a user
\* whose WalletAddress was set to v
UpdateWalletAddress(tbl, id, v) ==
    IF id \in Rows(tbl) THEN [tbl EXCEPT ![id].WalletAddress = v] ELSE tbl

FreeIds(tbl) == UserIds \ Rows(tbl)

\* user.Insert: a new enabled common user bound to addr, under the next id
Insert(tbl, id, a) ==
    [tbl EXCEPT ![id] = [exists |-> TRUE, Status |-> UserStatusEnabled,
                         Role |-> RoleCommonUser, WalletAddress |-> a]]

(***************************************************************************)
(* controller/auth wallet handlers: the pure parts.                        *)
(***************************************************************************)
IsValidEthAddress(a) == a \in Addrs

\* crypto.SigToPub and PubkeyToAddress under recovery id v: an error when v
\* is no recovery id, the signer's address for the message that was signed
\* under the id the signature was made with, some other address otherwise
SigToPub(message, signature, v) ==
    IF v \notin {0, 1} THEN [err |-> "RecoveryFailure", addr |-> ""]
    ELSE IF signature.msg = message /\ v = RecId(signature.signer)
    THEN [err |-> "", addr |-> ToLower(signature.signer)]
    ELSE [err |-> "", addr |-> Junk]

\* a recovery that leaves a last byte of 27 as it is (a fault the properties
\* must catch)
recoverAddressAbove27(message, signature) ==
    IF ~signature.hex \/ signature.len # 65
    THEN [err |-> "MalformedSignature", addr |-> ""]
    ELSE SigToPub(message, signature,
                  IF signature.v > 27 THEN signature.v - 27 ELSE signature.v)

recoverAddress(message, signature) ==
    IF ~signature.hex THEN [err |-> "MalformedSignature", addr |-> ""]
    ELSE IF signature.len # 65 THEN [err |-> "MalformedSignature", addr |-> ""]
    ELSE SigToPub(message, signature,
                  IF signature.v >= 27 THEN signature.v - 27 ELSE signature.v)

isRootAllowed(cfg, a) ==
    \E i \in 1..Len(cfg.WalletRootAllowedAddresses) :
        ToLower(cfg.WalletRootAllowedAddresses[i]) = a

ChainAllowed(cfg, chainId) ==
    \E i \in 1..Len(cfg.WalletAllowedChains) :
        TrimSpace(cfg.WalletAllowedChains[i]) = chainId

\* a verifyWalletRequest that looks at the chain id after the signature (a
\* fault the properties must catch)
verifyWalletRequestChainLast(cfg, m, q, t) ==
    LET got == GetWalletNonce(m, q.Address, t)
        rec == recoverAddress(got.entry.Message, q.Signature)
    IN  IF ~IsValidEthAddress(q.Address) THEN "MalformedAddress"
        ELSE IF q.Signature = NoSig THEN "MissingSignature"
        ELSE IF ~got.ok THEN "NonceInvalid"
        ELSE IF q.Nonce # NoNonce /\ got.entry.Nonce # q.Nonce THEN "NonceInvalid"
        ELSE IF rec.err # "" THEN "SignatureInvalid"
        ELSE IF ToLower(rec.addr) # ToLower(q.Address) THEN "SignatureMismatch"
        ELSE IF Len(cfg.WalletAllowedChains) > 0 /\ q.ChainId # ""
                /\ ~ChainAllowed(cfg, q.ChainId) THEN "ChainNotAllowed"
        ELSE ""

\* verifyWalletRequest: "" when the request verifies, the error otherwise
verifyWalletRequest(cfg, m, q, t) ==
    LET got == GetWalletNonce(m, q.Address, t)
        rec == recoverAddress(got.entry.Message, q.Signature)
    IN  IF ~IsValidEthAddress(q.Address) THEN "MalformedAddress"
        ELSE IF q.Signature = NoSig THEN "MissingSignature"
        ELSE IF Len(cfg.WalletAllowedChains) > 0 /\ q.ChainId # ""
                /\ ~ChainAllowed(cfg, q.ChainId) THEN "ChainNotAllowed"
        ELSE IF ~got.ok THEN "NonceInvalid"
        ELSE IF q.Nonce # NoNonce /\ got.entry.Nonce # q.Nonce THEN "NonceInvalid"
        ELSE IF rec.err # "" THEN "SignatureInvalid"
        ELSE IF ToLower(rec.addr) # ToLower(q.Address) THEN "SignatureMismatch"
        ELSE ""

(***************************************************************************)
(* What clients can send, and how the server can be configured.            *)
(***************************************************************************)
SystemPrefix == "Login to router"

\* signatures a client can hold: made with a wallet's key over an issued message
Sigs == {NoSig, BadSig} \cup {Sign(w, c.Message) : w \in LowerAddrs, c \in issued}

\* the bodies that name one of the chains
BodiesOn(chains) ==
    {BadBody} \cup
    [Address : Addrs \cup {BadAddr}, Signature : Sigs,
     Nonce : {NoNonce} \cup {c.Nonce : c \in issued}, ChainId : chains, ok : {TRUE}]

Bodies == BodiesOn(ChainIds)

\* a chain no allow-list of the model names
OtherChain == "56"

AnyChain == ChainIds \cup {OtherChain}

ChainBodies == BodiesOn(AnyChain)

NoRefresh == [token |-> NoToken, err |-> "", newToken |-> NoToken, session |-> NoId,
              count |-> 0]

\* no VerifyWalletJWT call yet
NoRecover == [message |-> NoMsg, signature |-> NoSig, err |-> "", addr |-> "", called |-> FALSE]

NoVerify == [token |-> NoToken, at |-> 0, secrets |-> <<>>, err |-> FALSE,
             claims |-> NoToken, called |-> FALSE]

\* The configuration the others are variations of: wallet login on, any chain,
\* no auto-registration, a token secret, a TTL of one minute, no root wallet.
BaseConfig ==
    [WalletLoginEnabled |-> TRUE, WalletAllowedChains |-> <<>>,
     WalletAutoRegisterEnabled |-> FALSE, WalletJWTSecret |-> "S1",
     WalletJWTFallbackSecrets |-> <<>>, WalletJWTExpireHours |-> 1,
     WalletNonceTTLMinutes |-> 1, WalletRootAllowedAddresses |-> <<>>]

With(cfg, f, v) == [cfg EXCEPT ![f] = v]

AutoRegister == With(BaseConfig, "WalletAutoRegisterEnabled", TRUE)
RootWallet == With(BaseConfig, "WalletRootAllowedAddresses", <<"0xbb">>)
NoSecret == With(BaseConfig, "WalletJWTSecret", "")
\* WALLET_ALLOWED_CHAINS=137, 1
AllowList == With(AutoRegister, "WalletAllowedChains", <<"137", " 1">>)
LoginOff == With(AllowList, "WalletLoginEnabled", FALSE)

InitUsers ==
    [u \in UserIds |->
        IF u = RootId
        THEN [exists |-> TRUE, Status |-> UserStatusEnabled, Role |-> RoleRootUser,
              WalletAddress |-> NoAddr]
        ELSE IF u = 2
        THEN [exists |-> TRUE, Status |-> UserStatusEnabled, Role |-> RoleCommonUser,
              WalletAddress |-> NoAddr]
        ELSE [exists |-> FALSE, Status |-> "", Role |-> "", WalletAddress |-> NoAddr]]

\* a table left by an earlier run: user 2 is bound to a wallet
BoundOwner == [InitUsers EXCEPT ![2].WalletAddress = "0xaa"]

\* a table left by an earlier run: user 2 was deleted while bound to a wallet
DeletedOwner ==
    [InitUsers EXCEPT ![2].Status = UserStatusDeleted, ![2].WalletAddress = "0xaa"]

\* a table left by an earlier run: users 2 and 3 were both deleted while bound
\* to the same wallet
TwoDeleted ==
    [DeletedOwner EXCEPT
        ![3] = [exists |-> TRUE, Status |-> UserStatusDeleted, Role |-> RoleCommonUser,
                WalletAddress |-> "0xaa"]]

Init(cfgs, tbls) ==
    /\ now = 0
    /\ config \in cfgs
    /\ walletNonceMap = {}
    /\ issued = {}
    /\ users \in tbls
    /\ sessions = {}
    /\ tokens = {}
    /\ auths = <<>>
    /\ admin = 0
    /\ refresh = NoRefresh
    /\ minted = {}
    /\ verified = NoVerify
    /\ recovered = NoRecover
    /\ pc = [r \in Reqs |-> "idle"]
    /\ handler = [r \in Reqs |-> ""]
    /\ addr = [r \in Reqs |-> ""]
    /\ chain = [r \in Reqs |-> ""]
    /\ entry = [r \in Reqs |-> NoEntry]
    /\ user = [r \in Reqs |-> NoUser]
    /\ exist = [r \in Reqs |-> NoUser]
    /\ result = [r \in Reqs |-> ""]
    /\ token = [r \in Reqs |-> NoToken]
    /\ consumes = [r \in Reqs |-> 0]
    /\ saved = [r \in Reqs |-> FALSE]
    /\ before = [r \in Reqs |-> InitUsers]
    /\ depth = [r \in Reqs |-> 0]

locals == <<addr, chain, entry, user, exist>>
history == <<consumes, saved, before, depth>>
reqVars == <<pc, handler, result, token, locals, history>>
stores == <<walletNonceMap, issued, users, sessions, tokens>>
others == <<now, config, admin, refresh, minted, verified, recovered>>

(***************************************************************************)
(* The environment: the clock and the administrator.                       *)
(***************************************************************************)
Tick ==
    /\ now < MaxTime * Minute
    /\ now' = now + Minute
    /\ UNCHANGED <<recovered, config, admin, refresh, minted, verified, stores, auths, reqVars>>

\* the server is stopped and started again under another environment: Init
\* reads the settings, and the nonce map of the old process is gone
Restart(cfg) ==
    /\ cfg # config
    /\ config' = cfg
    /\ walletNonceMap' = {}
    /\ UNCHANGED <<recovered, now, admin, refresh, minted, verified, issued, users,
                   sessions, tokens, auths, reqVars>>

\* an administrator enables, bans or deletes a user
AdminSetStatus(u, s) ==
    /\ admin < MaxAdmin
    /\ u \in Rows(users)
    /\ users[u].Status # s
    /\ users' = [users EXCEPT ![u].Status = s]
    /\ admin' = admin + 1
    /\ UNCHANGED <<recovered, now, config, refresh, minted, verified, walletNonceMap, issued,
                   sessions, tokens, auths, reqVars>>

(***************************************************************************)
(* Challenge issuance.                                                     *)
(***************************************************************************)
NextNonce == Cardinality(issued) + 1     \* random.GetUUID(): never seen before

\* t.UTC().Format(time.RFC3339): the time to the whole second
RFC3339(t) == t - (t % Second)

\* the expires_at both challenge handlers report
ReportedExpiry(cfg, t) == RFC3339(t + cfg.WalletNonceTTLMinutes * Minute)

\* the challenge is generated and stored
Issue(address, chainId) ==
    /\ walletNonceMap' = GenerateWalletNonce(walletNonceMap, config, address, SystemPrefix,
                                             chainId, NextNonce, now)
    /\ issued' = issued \cup
           {[Nonce |-> NextNonce,
             Message |-> WalletMessage(address, SystemPrefix, chainId, NextNonce, now)]}

\* a WalletNonce that never looks at the feature flag (a fault the properties
\* must catch)
WalletNonceErrorAnyFlag(cfg, address) ==
    IF ~IsValidEthAddress(address) THEN "MalformedAddress" ELSE ""

\* the error WalletNonce answers with, "" when it issues a challenge
WalletNonceError(cfg, address) ==
    IF ~cfg.WalletLoginEnabled THEN "FeatureDisabled"
    ELSE IF ~IsValidEthAddress(address) THEN "MalformedAddress"
    ELSE ""

WalletNonce(address, chainId) ==
    /\ Cardinality(issued) < MaxIssue
    /\ IF WalletNonceError(config, address) # ""
       THEN UNCHANGED <<walletNonceMap, issued>>
       ELSE Issue(address, chainId)
    /\ UNCHANGED <<others, users, sessions, tokens, auths, reqVars>>

\* the error WalletChallengeProto answers with, "" when it issues a challenge
WalletChallengeProtoError(cfg, tbl, address) ==
    IF ~cfg.WalletLoginEnabled THEN "FeatureDisabled"
    ELSE IF ~IsValidEthAddress(address) THEN "MalformedAddress"
    ELSE IF /\ ~IsWalletAddressAlreadyTaken(tbl, ToLower(address))
            /\ ~cfg.WalletAutoRegisterEnabled
            /\ ~isRootAllowed(cfg, ToLower(address))
    THEN "UnboundAddress"
    ELSE ""

WalletChallengeProto(address, chainId) ==
    /\ Cardinality(issued) < MaxIssue
    /\ IF WalletChallengeProtoError(config, users, address) # ""
       THEN UNCHANGED <<walletNonceMap, issued>>
       ELSE Issue(ToLower(address), chainId)
    /\ UNCHANGED <<others, users, sessions, tokens, auths, reqVars>>

(***************************************************************************)
(* WalletLogin and WalletVerifyProto: walletAuthenticate, then the session *)
(* and the token.  A request rejected before verifyWalletRequest returns   *)
(* nil has touched nothing: its answer is the value of Rejection, and the  *)
(* state is as it was.  For the others each read or write of the nonce map *)
(* or of the user table is a step; the response and the handler's locals   *)
(* stay visible until the response is sent (Return).                       *)
(***************************************************************************)
VerifyHandlers == {"WalletLogin", "WalletVerifyProto"}

\* the handler writes its response
Finish(r, res, tok) ==
    /\ pc' = [pc EXCEPT ![r] = "done"]
    /\ result' = [result EXCEPT ![r] = res]
    /\ token' = [token EXCEPT ![r] = tok]
    /\ auths' = IF res = "OK"
                THEN Append(auths, [handler |-> handler[r], entry |-> entry[r]])
                ELSE auths

Goto(r, l) ==
    /\ pc' = [pc EXCEPT ![r] = l]
    /\ UNCHANGED <<result, token, auths>>

\* request r arrives now
Arrives(r) == pc[r] = "idle" /\ (r = FirstReq \/ pc[FirstReq] # "idle")

\* the error a verify or bind request meets before any user is looked up
Rejection(cfg, m, q, t) ==
    IF ~cfg.WalletLoginEnabled THEN "FeatureDisabled"
    ELSE IF ~q.ok THEN "BadRequest"
    ELSE verifyWalletRequest(cfg, m, q, t)

\* decode the body, then verifyWalletRequest (one read of the nonce map)
StartVerify(r, h, q) ==
    /\ Arrives(r)
    /\ h \in VerifyHandlers
    /\ LET e == Rejection(config, walletNonceMap, q, now)
       IN  IF e # ""
           THEN UNCHANGED <<pc, handler, result, token, auths, addr, chain, entry, before>>
           ELSE /\ Goto(r, "find")
                /\ handler' = [handler EXCEPT ![r] = h]
                /\ addr' = [addr EXCEPT ![r] = ToLower(q.Address)]
                /\ chain' = [chain EXCEPT ![r] = q.ChainId]
                /\ entry' = [entry EXCEPT ![r] =
                                GetWalletNonce(walletNonceMap, q.Address, now).entry]
                /\ before' = [before EXCEPT ![r] = users]
    /\ UNCHANGED <<others, stores, user, exist, consumes, saved, depth>>

\* a walletAuthenticate that does not test the status (a fault the properties
\* must catch)
ResolvedAnyStatus(r, u) ==
    /\ user' = [user EXCEPT ![r] = u]
    /\ Goto(r, "consume")

\* walletAuthenticate after findOrCreateWalletUser returned u
Resolved(r, u) ==
    /\ user' = [user EXCEPT ![r] = u]
    /\ IF u.Status # UserStatusEnabled
       THEN Finish(r, "AccountDisabled", NoToken)
       ELSE Goto(r, "consume")

\* a findOrCreateWalletUser that auto-registers before it looks at the root
\* list (a fault the properties must catch)
FindAutoFirst(r) ==
    /\ pc[r] = "find"
    /\ IF IsWalletAddressAlreadyTaken(users, addr[r])
       THEN Goto(r, "fill") /\ UNCHANGED user
       ELSE IF config.WalletAutoRegisterEnabled
       THEN Goto(r, "create") /\ UNCHANGED user
       ELSE IF isRootAllowed(config, addr[r]) /\ users[RootId].exists
       THEN /\ Goto(r, "rootFill")
            /\ user' = [user EXCEPT ![r] = [NoUser EXCEPT !.Id = RootId]]
       ELSE Finish(r, "UnboundAddress", NoToken) /\ UNCHANGED user
    /\ depth' = [depth EXCEPT ![r] = @ + 1]
    /\ UNCHANGED <<others, stores, handler, addr, chain, entry, exist, consumes, saved,
                   before>>

\* findOrCreateWalletUser: IsWalletAddressAlreadyTaken, and on a free address
\* the select of the root user's id
Find(r) ==
    /\ pc[r] = "find"
    /\ IF IsWalletAddressAlreadyTaken(users, addr[r])
       THEN Goto(r, "fill") /\ UNCHANGED user
       ELSE IF isRootAllowed(config, addr[r]) /\ users[RootId].exists
       THEN /\ Goto(r, "rootFill")
            /\ user' = [user EXCEPT ![r] = [NoUser EXCEPT !.Id = RootId]]
       ELSE IF config.WalletAutoRegisterEnabled
       THEN Goto(r, "create") /\ UNCHANGED user
       ELSE Finish(r, "UnboundAddress", NoToken) /\ UNCHANGED user
    /\ depth' = [depth EXCEPT ![r] = @ + 1]
    /\ UNCHANGED <<others, stores, handler, addr, chain, entry, exist, consumes, saved,
                   before>>

\* root.FillUserById()
RootFill(r) ==
    /\ pc[r] = "rootFill"
    /\ user' = [user EXCEPT ![r] = FillUserById(users, RootId).user]
    /\ Goto(r, "rootUpdate")
    /\ UNCHANGED <<others, stores, handler, addr, chain, entry, exist, history>>

\* root.WalletAddress = &addr; root.Update(false); return &root
RootUpdate(r) ==
    /\ pc[r] = "rootUpdate"
    /\ users' = UpdateWalletAddress(users, user[r].Id, addr[r])
    /\ Resolved(r, [user[r] EXCEPT !.WalletAddress = addr[r]])
    /\ UNCHANGED <<others, walletNonceMap, issued, sessions, tokens, handler, addr, chain,
                   entry, exist, history>>

\* autoCreateWalletUser
Create(r) ==
    /\ pc[r] = "create"
    /\ IF FreeIds(users) = {}
       THEN Finish(r, "InsertFailed", NoToken) /\ UNCHANGED <<users, user>>
       ELSE LET id == CHOOSE u \in FreeIds(users) : \A v \in FreeIds(users) : u <= v
            IN  /\ users' = Insert(users, id, addr[r])
                /\ Resolved(r, Fill(Insert(users, id, addr[r]), id))
    /\ UNCHANGED <<others, walletNonceMap, issued, sessions, tokens, handler, addr, chain,
                   entry, exist, history>>

\* user.FillUserByWalletAddress(), and the test of its status
FillByAddress(r) ==
    /\ pc[r] = "fill"
    /\ LET got == FillUserByWalletAddress(users, addr[r])
       IN  IF got.err THEN Finish(r, "RecordNotFound", NoToken) /\ UNCHANGED user
           ELSE IF got.user.Status = UserStatusDeleted
           THEN Goto(r, "clear") /\ user' = [user EXCEPT ![r] = got.user]
           ELSE Resolved(r, got.user)
    /\ UNCHANGED <<others, stores, handler, addr, chain, entry, exist, history>>

\* the deleted owner's binding is cleared and the resolution starts again
Clear(r) ==
    /\ pc[r] = "clear"
    /\ users' = UpdateWalletAddress(users, user[r].Id, NoAddr)
    /\ Goto(r, "find")
    /\ UNCHANGED <<others, walletNonceMap, issued, sessions, tokens, handler, locals,
                   history>>

\* the same step when the database refuses the update: the error is dropped
\* (_ =), the row keeps its binding and the resolution starts again
ClearFails(r) ==
    /\ pc[r] = "clear"
    /\ depth[r] < MaxDepth
    /\ Goto(r, "find")
    /\ UNCHANGED <<others, stores, handler, locals, history>>

\* a walletAuthenticate that deletes the entry it verified and no other (a
\* fault the properties must catch)
ConsumeVerified(r) ==
    /\ pc[r] = "consume"
    /\ walletNonceMap' = walletNonceMap \ {entry[r]}
    /\ consumes' = [consumes EXCEPT ![r] = @ + 1]
    /\ Goto(r, "session")
    /\ UNCHANGED <<others, issued, users, sessions, tokens, handler, locals, saved,
                   before, depth>>

\* common.ConsumeWalletNonce(addr) at the end of walletAuthenticate
Consume(r) ==
    /\ pc[r] = "consume"
    /\ walletNonceMap' = ConsumeWalletNonce(walletNonceMap, addr[r])
    /\ consumes' = [consumes EXCEPT ![r] = @ + 1]
    /\ Goto(r, "session")
    /\ UNCHANGED <<others, issued, users, sessions, tokens, handler, locals, saved,
                   before, depth>>

\* controller.SetupSession, which may fail to save, then GenerateWalletJWT
Session(r, ok) ==
    /\ pc[r] = "session"
    /\ LET a == IF user[r].WalletAddress # NoAddr
                THEN ToLower(user[r].WalletAddress) ELSE ""
           jwt == GenerateWalletJWT(config, user[r].Id, a, now)
       IN  IF ~ok
           THEN /\ Finish(r, "SessionFailed", NoToken)
                /\ UNCHANGED <<sessions, tokens, saved>>
           ELSE /\ sessions' = sessions \cup {user[r].Id}
                /\ saved' = [saved EXCEPT ![r] = TRUE]
                /\ tokens' = IF jwt.err THEN tokens ELSE tokens \cup {jwt.token}
                /\ IF handler[r] = "WalletLogin"
                   THEN /\ pc' = [pc EXCEPT ![r] = "consume2"]
                        /\ token' = [token EXCEPT ![r] = jwt.token]
                        /\ UNCHANGED <<result, auths>>
                   ELSE IF jwt.err THEN Finish(r, "TokenFailed", NoToken)
                   ELSE Finish(r, "OK", jwt.token)
    /\ UNCHANGED <<others, walletNonceMap, issued, users, handler, locals, consumes,
                   before, depth>>

\* WalletLogin consumes the nonce again before it answers
Consume2(r) ==
    /\ pc[r] = "consume2"
    /\ walletNonceMap' = ConsumeWalletNonce(walletNonceMap, addr[r])
    /\ consumes' = [consumes EXCEPT ![r] = @ + 1]
    /\ Finish(r, "OK", token[r])
    /\ UNCHANGED <<others, issued, users, sessions, tokens, handler, locals, saved,
                   before, depth>>

\* the response is sent and the handler's frame is gone
Return(r) ==
    /\ pc[r] = "done"
    /\ pc' = [pc EXCEPT ![r] = "idle"]
    /\ handler' = [handler EXCEPT ![r] = ""]
    /\ addr' = [addr EXCEPT ![r] = ""]
    /\ chain' = [chain EXCEPT ![r] = ""]
    /\ entry' = [entry EXCEPT ![r] = NoEntry]
    /\ user' = [user EXCEPT ![r] = NoUser]
    /\ exist' = [exist EXCEPT ![r] = NoUser]
    /\ result' = [result EXCEPT ![r] = ""]
    /\ token' = [token EXCEPT ![r] = NoToken]
    /\ consumes' = [consumes EXCEPT ![r] = 0]
    /\ saved' = [saved EXCEPT ![r] = FALSE]
    /\ before' = [before EXCEPT ![r] = InitUsers]
    /\ depth' = [depth EXCEPT ![r] = 0]
    /\ UNCHANGED <<others, stores, auths>>

(***************************************************************************)
(* WalletBind.                                                             *)
(***************************************************************************)
\* a WalletBind that goes on without a session, as user 0 (a fault the
\* properties must catch)
BindRejectionNoSession(cfg, m, tbl, q, id, t) ==
    IF Rejection(cfg, m, q, t) # "" THEN Rejection(cfg, m, q, t)
    ELSE IF FillUserById(tbl, id).err THEN "RecordNotFound"
    ELSE ""

\* the error a bind request meets on arrival: that of a verify request, no
\* session, or a session of a user the table does not hold
BindRejection(cfg, m, tbl, q, id, t) ==
    IF Rejection(cfg, m, q, t) # "" THEN Rejection(cfg, m, q, t)
    ELSE IF id = NoId THEN "Unauthorized"
    ELSE IF FillUserById(tbl, id).err THEN "RecordNotFound"
    ELSE ""

\* decode the body, verifyWalletRequest, the caller's session, FillUserById
\* (a caller's session comes from any login method: any user may hold one)
StartBind(r, q, id) ==
    /\ Arrives(r)
    /\ IF BindRejection(config, walletNonceMap, users, q, id, now) # ""
       THEN UNCHANGED <<pc, handler, result, token, auths, addr, chain, entry, user,
                        before>>
       ELSE /\ Goto(r, "bindTaken")
            /\ handler' = [handler EXCEPT ![r] = "WalletBind"]
            /\ addr' = [addr EXCEPT ![r] = ToLower(q.Address)]
            /\ chain' = [chain EXCEPT ![r] = q.ChainId]
            /\ entry' = [entry EXCEPT ![r] =
                            GetWalletNonce(walletNonceMap, q.Address, now).entry]
            /\ before' = [before EXCEPT ![r] = users]
            /\ user' = [user EXCEPT ![r] = FillUserById(users, id).user]
    /\ UNCHANGED <<others, stores, exist, consumes, saved, depth>>

\* model.IsWalletAddressAlreadyTaken(addr)
BindTaken(r) ==
    /\ pc[r] = "bindTaken"
    /\ IF IsWalletAddressAlreadyTaken(users, addr[r])
       THEN Goto(r, "bindExist")
       ELSE Goto(r, "bindUpdate")
    /\ UNCHANGED <<others, stores, handler, locals, history>>

\* a WalletBind that lets any caller take the address (a fault the properties
\* must catch)
BindVerdictAnyCaller(ex, u, a) ==
    IF ex.Status = UserStatusDeleted THEN "clear" ELSE "bind"

\* the owner of the address, as WalletBind judges it
BindVerdict(ex, u, a) ==
    IF ex.Status = UserStatusDeleted THEN "clear"
    ELSE IF ex.Id # u.Id /\ (u.WalletAddress = NoAddr \/ ToLower(u.WalletAddress) # a)
    THEN "taken"
    ELSE "bind"

\* exist.FillUserByWalletAddress() and what follows from it
BindExist(r) ==
    /\ pc[r] = "bindExist"
    /\ LET got == FillUserByWalletAddress(users, addr[r])
           v == BindVerdict(got.user, user[r], addr[r])
       IN  IF got.err THEN Goto(r, "bindUpdate") /\ UNCHANGED exist
           ELSE /\ exist' = [exist EXCEPT ![r] = got.user]
                /\ IF v = "clear" THEN Goto(r, "bindClear")
                   ELSE IF v = "taken" THEN Finish(r, "AddressAlreadyBound", NoToken)
                   ELSE Goto(r, "bindUpdate")
    /\ UNCHANGED <<others, stores, handler, addr, chain, entry, user, history>>

\* model.DB.Model(&exist).Update("wallet_address", nil)
BindClear(r) ==
    /\ pc[r] = "bindClear"
    /\ users' = UpdateWalletAddress(users, exist[r].Id, NoAddr)
    /\ Goto(r, "bindUpdate")
    /\ UNCHANGED <<others, walletNonceMap, issued, sessions, tokens, handler, locals,
                   history>>

\* user.WalletAddress = &addr; user.Update(false)
BindUpdate(r) ==
    /\ pc[r] = "bindUpdate"
    /\ users' = UpdateWalletAddress(users, user[r].Id, addr[r])
    /\ user' = [user EXCEPT ![r].WalletAddress = addr[r]]
    /\ Goto(r, "bindConsume")
    /\ UNCHANGED <<others, walletNonceMap, issued, sessions, tokens, handler, addr, chain,
                   entry, exist, history>>

\* common.ConsumeWalletNonce(addr), then the answer
BindConsume(r) ==
    /\ pc[r] = "bindConsume"
    /\ walletNonceMap' = ConsumeWalletNonce(walletNonceMap, addr[r])
    /\ consumes' = [consumes EXCEPT ![r] = @ + 1]
    /\ Finish(r, "OK", NoToken)
    /\ UNCHANGED <<others, issued, users, sessions, tokens, handler, locals, saved,
                   before, depth>>

(***************************************************************************)
(* WalletRefreshToken: one read of the user table.                         *)
(***************************************************************************)
Forged ==
    [UserID |-> 2, WalletAddress |-> "0xaa", ExpiresAt |-> MaxTime * Minute + Hour,
     key |-> "S0"]

\* a refresh that mints the new token for the root user (a fault the
\* properties must catch)
RefreshOutcomeAsRoot(cfg, tbl, tok, ok, t) ==
    LET v == VerifyWalletJWT(cfg, tok, t)
        got == FillUserById(tbl, v.claims.UserID)
        u == got.user
        userAddr == IF u.WalletAddress # NoAddr THEN ToLower(u.WalletAddress) ELSE ""
        jwt == GenerateWalletJWT(cfg, RootId, userAddr, t)
    IN  IF tok = NoToken THEN [err |-> "MissingToken", token |-> NoToken, session |-> NoId]
        ELSE IF v.err THEN [err |-> "InvalidToken", token |-> NoToken, session |-> NoId]
        ELSE IF got.err THEN [err |-> "UserNotFound", token |-> NoToken, session |-> NoId]
        ELSE IF u.WalletAddress = NoAddr \/ userAddr # ToLower(v.claims.WalletAddress)
        THEN [err |-> "AddressMismatch", token |-> NoToken, session |-> NoId]
        ELSE IF u.Status # UserStatusEnabled
        THEN [err |-> "AccountDisabled", token |-> NoToken, session |-> NoId]
        ELSE IF ~ok THEN [err |-> "SessionFailed", token |-> NoToken, session |-> NoId]
        ELSE IF jwt.err THEN [err |-> "TokenFailed", token |-> NoToken, session |-> u.Id]
        ELSE [err |-> "", token |-> jwt.token, session |-> u.Id]

\* a refresh that does not compare the addresses (a fault the properties must
\* catch)
RefreshOutcomeAnyAddress(cfg, tbl, tok, ok, t) ==
    LET v == VerifyWalletJWT(cfg, tok, t)
        got == FillUserById(tbl, v.claims.UserID)
        u == got.user
        userAddr == IF u.WalletAddress # NoAddr THEN ToLower(u.WalletAddress) ELSE ""
        jwt == GenerateWalletJWT(cfg, u.Id, userAddr, t)
    IN  IF tok = NoToken THEN [err |-> "MissingToken", token |-> NoToken, session |-> NoId]
        ELSE IF v.err THEN [err |-> "InvalidToken", token |-> NoToken, session |-> NoId]
        ELSE IF got.err THEN [err |-> "UserNotFound", token |-> NoToken, session |-> NoId]
        ELSE IF u.Status # UserStatusEnabled
        THEN [err |-> "AccountDisabled", token |-> NoToken, session |-> NoId]
        ELSE IF ~ok THEN [err |-> "SessionFailed", token |-> NoToken, session |-> NoId]
        ELSE IF jwt.err THEN [err |-> "TokenFailed", token |-> NoToken, session |-> u.Id]
        ELSE [err |-> "", token |-> jwt.token, session |-> u.Id]

\* a refresh that presents tok: the error, or "" with the new token; the user
\* whose session was saved
RefreshOutcome(cfg, tbl, tok, ok, t) ==
    LET v == VerifyWalletJWT(cfg, tok, t)
        got == FillUserById(tbl, v.claims.UserID)
        u == got.user
        userAddr == IF u.WalletAddress # NoAddr THEN ToLower(u.WalletAddress) ELSE ""
        jwt == GenerateWalletJWT(cfg, u.Id, userAddr, t)
    IN  IF tok = NoToken THEN [err |-> "MissingToken", token |-> NoToken, session |-> NoId]
        ELSE IF v.err THEN [err |-> "InvalidToken", token |-> NoToken, session |-> NoId]
        ELSE IF got.err THEN [err |-> "UserNotFound", token |-> NoToken, session |-> NoId]
        ELSE IF u.WalletAddress = NoAddr \/ userAddr # ToLower(v.claims.WalletAddress)
        THEN [err |-> "AddressMismatch", token |-> NoToken, session |-> NoId]
        ELSE IF u.Status # UserStatusEnabled
        THEN [err |-> "AccountDisabled", token |-> NoToken, session |-> NoId]
        ELSE IF ~ok THEN [err |-> "SessionFailed", token |-> NoToken, session |-> NoId]
        ELSE IF jwt.err THEN [err |-> "TokenFailed", token |-> NoToken, session |-> u.Id]
        ELSE [err |-> "", token |-> jwt.token, session |-> u.Id]

\* a refresh that sweeps the expired challenges on its way (a fault the
\* properties must catch)
WalletRefreshTokenSweeps(tok, ok) ==
    /\ refresh.count < MaxRefresh
    /\ tok \in tokens \cup {NoToken, Forged}
    /\ LET out == RefreshOutcome(config, users, tok, ok, now)
       IN  /\ refresh' = [token |-> tok, err |-> out.err, newToken |-> out.token,
                          session |-> out.session, count |-> refresh.count + 1]
           /\ sessions' = IF out.session = NoId THEN sessions
                          ELSE sessions \cup {out.session}
           /\ tokens' = IF out.err = "" THEN tokens \cup {out.token} ELSE tokens
    /\ walletNonceMap' = cleanupWalletNonces(walletNonceMap, now)
    /\ UNCHANGED <<recovered, now, config, admin, minted, verified, issued, users, auths, reqVars>>

WalletRefreshToken(tok, ok) ==
    /\ refresh.count < MaxRefresh
    /\ tok \in tokens \cup {NoToken, Forged}
    /\ LET out == RefreshOutcome(config, users, tok, ok, now)
       IN  /\ refresh' = [token |-> tok, err |-> out.err, newToken |-> out.token,
                          session |-> out.session, count |-> refresh.count + 1]
           /\ sessions' = IF out.session = NoId THEN sessions
                          ELSE sessions \cup {out.session}
           /\ tokens' = IF out.err = "" THEN tokens \cup {out.token} ELSE tokens
    /\ UNCHANGED <<recovered, now, config, admin, minted, verified, walletNonceMap, issued, users,
                   auths, reqVars>>

(***************************************************************************)
(* The codec on its own: a caller mints tokens and verifies them, while    *)
(* time passes and the secrets are rotated.                                *)
(***************************************************************************)
\* the secrets VerifyWalletJWT tries, in order
SecretsOf(cfg) == <<cfg.WalletJWTSecret>> \o cfg.WalletJWTFallbackSecrets

\* common.GenerateWalletJWT(u, a)
Mint(u, a) ==
    /\ Cardinality(minted) < MaxMint
    /\ LET jwt == GenerateWalletJWT(config, u, a, now)
       IN  /\ minted' = minted \cup
                  {[UserID |-> u, WalletAddress |-> a, secrets |-> SecretsOf(config),
                    at |-> now, err |-> jwt.err, token |-> jwt.token, expiresAt |-> jwt.expiresAt]}
           /\ tokens' = IF jwt.err THEN tokens ELSE tokens \cup {jwt.token}
    /\ UNCHANGED <<recovered, now, config, admin, refresh, verified, walletNonceMap, issued, users,
                   sessions, auths, reqVars>>

\* common.VerifyWalletJWT(tok)
Verify(tok) ==
    /\ LET v == VerifyWalletJWT(config, tok, now)
       IN  verified' = [token |-> tok, at |-> now, secrets |-> SecretsOf(config),
                        err |-> v.err, claims |-> v.claims, called |-> TRUE]
    /\ UNCHANGED <<recovered, now, config, admin, refresh, minted, stores, auths, reqVars>>

\* time passes: a tick, within a second before the hour and MaxTick after it,
\* or all but a second of an hour
Pass(d) ==
    /\ d \in {1, Hour - Second}
    /\ IF d = 1 THEN (now + Second) % Hour < MaxTick + Second ELSE now < Hour - Second
    /\ now' = now + d
    /\ UNCHANGED <<recovered, config, admin, refresh, minted, verified, stores, auths, reqVars>>

\* the lengths and last bytes of the signatures sent to recoverAddress
SigLens == {0, 64, 65, 66}
LastBytes == {0, 1, 2, 26, 27, 28, 29, 255}

\* the strings a client can make of the signatures of the wallets over the
\* issued messages
RawSigs ==
    {[hex |-> h, len |-> l, v |-> v, signer |-> w, msg |-> c.Message] :
        h \in BOOLEAN, l \in SigLens, v \in LastBytes, w \in LowerAddrs, c \in issued}

\* recoverAddress(message, signature)
Recover(message, signature) ==
    /\ LET rec == recoverAddress(message, signature)
       IN  recovered' = [message |-> message, signature |-> signature, err |-> rec.err,
                         addr |-> rec.addr, called |-> TRUE]
    /\ UNCHANGED <<now, config, admin, refresh, minted, verified, stores, auths, reqVars>>

\* the settings of the secrets: the primary one may be missing, the fallback
\* list holds no empty string (Init drops them)
Secrets(primary, fallback) ==
    With(With(BaseConfig, "WalletJWTSecret", primary), "WalletJWTFallbackSecrets", fallback)

SecretConfigs ==
    {Secrets(p, f) : p \in {"", "S1", "S2"}, f \in {<<>>, <<"S1">>}}

(***************************************************************************)
(* The server.                                                             *)
(***************************************************************************)
Admin == \E u \in UserIds, s \in Statuses : AdminSetStatus(u, s)

Refreshes ==
    \E tok \in tokens \cup {NoToken, Forged}, ok \in BOOLEAN : WalletRefreshToken(tok, ok)

\* the body of a client that signs the challenge it got with its own key
Honest(c) ==
    [Address |-> c.Message.Address, Signature |-> Sign(ToLower(c.Message.Address), c.Message),
     Nonce |-> c.Nonce, ChainId |-> c.Message.ChainId, ok |-> TRUE]

HonestBodies == {Honest(c) : c \in issued}

\* the same bodies, sent with a chain id of the client's choosing
HonestOn(chains) == {[Honest(c) EXCEPT !.ChainId = ch] : c \in issued, ch \in chains}

\* one step of request r past its verification
Steps(r) ==
    \/ Find(r)
    \/ RootFill(r)
    \/ RootUpdate(r)
    \/ Create(r)
    \/ FillByAddress(r)
    \/ Clear(r)
    \/ Consume(r)
    \/ \E ok \in BOOLEAN : Session(r, ok)
    \/ Consume2(r)
    \/ BindTaken(r)
    \/ BindExist(r)
    \/ BindClear(r)
    \/ BindUpdate(r)
    \/ BindConsume(r)
    \/ Return(r)

\* no request is being served
Quiet == \A r \in Reqs : pc[r] = "idle"

\* Requests served concurrently: one challenge is issued to a wallet, and the
\* requests that answer it with the wallet's signature are interleaved step by
\* step.
Next ==
    \/ issued = {} /\ WalletNonce("0xAA", "")
    \/ issued = {} /\ WalletChallengeProto("0xAA", "")
    \/ \E r \in Reqs, h \in VerifyHandlers, q \in HonestBodies : StartVerify(r, h, q)
    \/ \E r \in Reqs, q \in HonestBodies, id \in UserIds \cup {NoId} : StartBind(r, q, id)
    \/ \E r \in Reqs : Steps(r)

Spec ==
    Init({BaseConfig, AutoRegister, With(BaseConfig, "WalletRootAllowedAddresses", <<"0xaa">>)},
         {InitUsers, DeletedOwner}) /\ [][Next]_vars

\* One request at a time: a request arrives only when none is being served,
\* and nothing else happens until its response is sent.  Any body may arrive,
\* and the administrator acts between requests.
NextSeq ==
    \/ Quiet /\ \E a \in {"0xAA", "0xbb"} : WalletNonce(a, "")
    \/ Quiet /\ \E a \in {"0xAA", "0xbb"} : WalletChallengeProto(a, "")
    \/ Quiet /\ Admin
    \/ Quiet /\ \E r \in Reqs, h \in VerifyHandlers, q \in Bodies : StartVerify(r, h, q)
    \/ Quiet /\ \E r \in Reqs, q \in Bodies, id \in UserIds \cup {NoId} : StartBind(r, q, id)
    \/ \E r \in Reqs : Steps(r)

SpecSeq ==
    Init({BaseConfig, AutoRegister, NoSecret,
          With(AutoRegister, "WalletRootAllowedAddresses", <<"0xbb">>)},
         {InitUsers}) /\ [][NextSeq]_vars

\* The nonce store alone: challenges are issued and time passes.
NextStore ==
    \/ Tick
    \/ \E a \in Addrs \cup {BadAddr}, c \in ChainIds : WalletNonce(a, c)
    \/ \E a \in Addrs \cup {BadAddr}, c \in ChainIds : WalletChallengeProto(a, c)

SpecStore ==
    Init({BaseConfig, AutoRegister, With(BaseConfig, "WalletNonceTTLMinutes", 0),
          With(BaseConfig, "WalletLoginEnabled", FALSE),
          With(BaseConfig, "WalletAllowedChains", <<" 1">>),
          With(BaseConfig, "WalletAllowedChains", <<"137">>)},
         {InitUsers}) /\ [][NextStore]_vars

\* Tokens: sequential requests of honest clients, and refreshes between them.
NextRefresh ==
    \/ Quiet /\ \E a \in {"0xAA", "0xbb"} : WalletNonce(a, "")
    \/ Quiet /\ \E a \in {"0xAA", "0xbb"} : WalletChallengeProto(a, "")
    \/ Quiet /\ Admin
    \/ Quiet /\ Refreshes
    \/ Quiet /\ \E r \in Reqs, h \in VerifyHandlers, q \in HonestBodies : StartVerify(r, h, q)
    \/ Quiet /\ \E r \in Reqs, q \in HonestBodies, id \in UserIds \cup {NoId} :
                    StartBind(r, q, id)
    \/ \E r \in Reqs : Steps(r)

\* Deployments: one request at a time under a chain allow-list, from clients
\* that sign their challenge and name any chain, and restarts that switch
\* wallet login off and on.
NextConfig ==
    \/ Quiet /\ Tick
    \/ Quiet /\ \E cfg \in {AllowList, LoginOff} : Restart(cfg)
    \/ Quiet /\ \E c \in ChainIds : WalletNonce("0xAA", c)
    \/ Quiet /\ \E c \in ChainIds : WalletChallengeProto("0xAA", c)
    \/ Quiet /\ \E r \in Reqs, h \in VerifyHandlers, q \in HonestOn(AnyChain) :
                    StartVerify(r, h, q)
    \/ Quiet /\ \E r \in Reqs, q \in HonestOn(AnyChain), id \in UserIds \cup {NoId} :
                    StartBind(r, q, id)
    \/ \E r \in Reqs : Steps(r)

SpecConfig ==
    Init({AllowList, LoginOff, With(AllowList, "WalletRootAllowedAddresses", <<"0xaa">>)},
         {BoundOwner, DeletedOwner}) /\ [][NextConfig]_vars

\* Refreshes beside the nonce store: challenges are issued and expire while
\* tokens are minted and presented for refresh.
NextRefreshStore ==
    \/ Tick
    \/ \E a \in {"0xAA", "0xbb"} : WalletNonce(a, "")
    \/ \E u \in Rows(users), a \in LowerAddrs : Mint(u, a)
    \/ Refreshes

SpecRefreshStore == Init({BaseConfig, NoSecret}, {BoundOwner}) /\ [][NextRefreshStore]_vars

\* The codec and its caller.
NextCodec ==
    \/ \E u \in Rows(users), a \in LowerAddrs : Mint(u, a)
    \/ \E tok \in tokens \cup {Forged} : Verify(tok)
    \/ \E d \in {1, Hour - Second} : Pass(d)
    \/ \E cfg \in SecretConfigs : Restart(cfg)

SpecCodec == Init(SecretConfigs, {InitUsers}) /\ [][NextCodec]_vars

\* One request at a time over tables that hold deleted owners, with a database
\* that may refuse the update clearing a deleted owner's binding.
NextResolve ==
    \/ Quiet /\ WalletNonce("0xAA", "")
    \/ Quiet /\ WalletChallengeProto("0xAA", "")
    \/ Quiet /\ \E r \in Reqs, h \in VerifyHandlers, q \in HonestBodies : StartVerify(r, h, q)
    \/ Quiet /\ \E r \in Reqs, q \in HonestBodies, id \in UserIds \cup {NoId} :
                    StartBind(r, q, id)
    \/ \E r \in Reqs : Steps(r)
    \/ \E r \in Reqs : ClearFails(r)

SpecResolve ==
    Init({BaseConfig, AutoRegister, With(BaseConfig, "WalletRootAllowedAddresses", <<"0xaa">>)},
         {DeletedOwner, TwoDeleted}) /\ [][NextResolve]_vars

\* The verifier alone: challenges are issued and recoverAddress is called on
\* their messages with every string a client can send.
NextRecover ==
    \/ \E a \in {"0xAA", "0xbb"} : WalletNonce(a, "")
    \/ \E c \in issued, s \in RawSigs : Recover(c.Message, s)

SpecRecover == Init({BaseConfig}, {InitUsers}) /\ [][NextRecover]_vars

\* One verify or bind request at a time, while challenges go on being issued
\* to the same wallet by other requests.
NextRace ==
    \/ WalletNonce("0xAA", "")
    \/ WalletChallengeProto("0xAA", "")
    \/ Quiet /\ \E r \in Reqs, h \in VerifyHandlers, q \in HonestBodies : StartVerify(r, h, q)
    \/ Quiet /\ \E r \in Reqs, q \in HonestBodies, id \in UserIds \cup {NoId} :
                    StartBind(r, q, id)
    \/ \E r \in Reqs : Steps(r)

SpecRace ==
    Init({BaseConfig, AutoRegister, With(BaseConfig, "WalletRootAllowedAddresses", <<"0xaa">>)},
         {InitUsers, DeletedOwner}) /\ [][NextRace]_vars

\* One request at a time under a chain allow-list; challenges are issued with
\* any chain id and answered with any chain id.
NextChain ==
    \/ Quiet /\ \E c \in AnyChain : WalletNonce("0xAA", c)
    \/ Quiet /\ \E c \in AnyChain : WalletChallengeProto("0xAA", c)
    \/ Quiet /\ \E r \in Reqs, h \in VerifyHandlers, q \in HonestOn(AnyChain) :
                    StartVerify(r, h, q)
    \/ Quiet /\ \E r \in Reqs, q \in HonestOn(AnyChain), id \in UserIds \cup {NoId} :
                    StartBind(r, q, id)
    \/ \E r \in Reqs : Steps(r)

SpecChain ==
    Init({AllowList, With(AllowList, "WalletRootAllowedAddresses", <<"0xaa">>)},
         {BoundOwner, DeletedOwner}) /\ [][NextChain]_vars

\* One request at a time of any flow, and restarts that switch wallet login
\* off and on; the tokens issued before a restart are still in their owners'
\* hands after it.
NextFlag ==
    \/ Quiet /\ Restart(With(config, "WalletLoginEnabled", ~config.WalletLoginEnabled))
    \/ Quiet /\ WalletNonce("0xAA", "")
    \/ Quiet /\ WalletChallengeProto("0xAA", "")
    \/ Quiet /\ Refreshes
    \/ Quiet /\ \E r \in Reqs, h \in VerifyHandlers, q \in HonestBodies : StartVerify(r, h, q)
    \/ Quiet /\ \E r \in Reqs, q \in HonestBodies, id \in UserIds \cup {NoId} :
                    StartBind(r, q, id)
    \/ \E r \in Reqs : Steps(r)

SpecFlag ==
    Init({AutoRegister, With(BaseConfig, "WalletRootAllowedAddresses", <<"0xaa">>)},
         {BoundOwner, DeletedOwner}) /\ [][NextFlag]_vars

SpecRefresh ==
    Init({BaseConfig, AutoRegister, RootWallet, NoSecret}, {InitUsers}) /\ [][NextRefresh]_vars

(***************************************************************************)
(* Properties.                                                             *)
(***************************************************************************)
\* the key under which the store files challenge c
KeyOf(c) == ToLower(c.Message.Address)

\* a later challenge was issued for the same address
Overwritten(c) == \E d \in issued : KeyOf(d) = KeyOf(c) /\ d.Nonce > c.Nonce

\* the errors of a request that never gets to the nonce lookup
InputErrors ==
    {"FeatureDisabled", "BadRequest", "MalformedAddress", "MissingSignature",
     "ChainNotAllowed"}

\* what a verify or bind request with body q would be answered now
Answer(q) == Rejection(config, walletNonceMap, q, now)

\* C1: for each issued challenge, at most one request that presents its
\* signature completes successfully, however verify and bind requests are
\* interleaved.
AuthenticatesOnce ==
    \A i, j \in DOMAIN auths :
        i # j => auths[i].entry.Nonce # auths[j].entry.Nonce

\* q repeats a request that authenticated against entry e: the same address,
\* the same signature, and the nonce it carried (the entry's, or none)
Replays(q, e) ==
    /\ q.ok
    /\ ToLower(q.Address) = e.key
    /\ q.Signature = Sign(e.key, e.Message)
    /\ q.Nonce \in {NoNonce, e.Nonce}
    /\ Answer(q) \notin InputErrors

\* C2: once a verify request has succeeded and completed, the same (address,
\* signature, nonce) sent again, no challenge having been issued for the
\* address since, is answered NonceInvalid.
ReplayFails ==
    \A i \in DOMAIN auths :
        LET e == auths[i].entry
        IN  (auths[i].handler \in VerifyHandlers /\ ~Overwritten(e))
                => \A q \in Bodies : Replays(q, e) => Answer(q) = "NonceInvalid"

\* a completed login, and its replay is a body a client can send
ReplayFailsWitness ==
    \E i \in DOMAIN auths :
        /\ auths[i].handler \in VerifyHandlers
        /\ ~Overwritten(auths[i].entry)
        /\ Quiet
        /\ \E q \in Bodies :
              Replays(q, auths[i].entry) /\ q.Nonce # NoNonce /\ Answer(q) = "NonceInvalid"

\* C3: the store holds at most one challenge per lower-cased address; a second
\* issuance overwrites the first, and a verify request that supplies the first
\* issuance's nonce is answered NonceInvalid.
OneChallengePerAddress ==
    /\ \A e1, e2 \in walletNonceMap : e1.key = e2.key => e1 = e2
    /\ \A e \in walletNonceMap : e.key \in LowerAddrs
    /\ \A c \in issued :
          Overwritten(c) =>
             /\ \A e \in walletNonceMap : e.Nonce # c.Nonce
             /\ \A q \in Bodies :
                   (/\ ToLower(q.Address) = KeyOf(c)
                    /\ q.Nonce = c.Nonce
                    /\ Answer(q) \notin InputErrors) => Answer(q) = "NonceInvalid"

\* two issuances for one address, spelled in two cases, and the wallet's
\* signature over the first message arrives with the first nonce
OneChallengePerAddressWitness ==
    \E c, d \in issued :
        /\ KeyOf(d) = KeyOf(c) /\ d.Nonce > c.Nonce
        /\ c.Message.Address # d.Message.Address
        /\ \E e \in walletNonceMap : e.key = KeyOf(c) /\ e.Nonce = d.Nonce
        /\ \E q \in Bodies :
              /\ ToLower(q.Address) = KeyOf(c)
              /\ q.Nonce = c.Nonce
              /\ q.Signature = Sign(KeyOf(c), c.Message)
              /\ Answer(q) = "NonceInvalid"

\* the latest challenge issued for its address
Latest(c) == ~Overwritten(c)

\* C4: GetWalletNonce finds an entry exactly when one is stored under the
\* lower-cased address and the time is not after its ExpireAt: an expired entry
\* is not returned though no sweep removed it, and an entry neither consumed
\* nor overwritten is returned up to and including its ExpireAt.
FoundIffLive ==
    /\ \A a \in Addrs :
          GetWalletNonce(walletNonceMap, a, now).ok
              <=> \E e \in walletNonceMap : e.key = ToLower(a) /\ now <= e.ExpireAt
    /\ \A c \in issued :
          Latest(c) =>
             LET got == GetWalletNonce(walletNonceMap, c.Message.Address, now)
             IN  (got.ok /\ got.entry.Nonce = c.Nonce)
                     <=> now <= c.Message.IssuedAt + getWalletNonceTTL(config)

\* an expired row still in the map and not found, beside a row found in the
\* last minute of its life
FoundIffLiveWitness ==
    \E e1, e2 \in walletNonceMap :
        /\ now > e1.ExpireAt
        /\ ~GetWalletNonce(walletNonceMap, e1.key, now).ok
        /\ now = e2.ExpireAt
        /\ GetWalletNonce(walletNonceMap, e2.key, now).ok

\* request r has written its response
Done(r) == pc[r] = "done"

\* C5: a verify request that ends in failure, at whichever step, leaves the
\* stored challenge of its address untouched.
FailureKeepsChallenge ==
    \A r \in Reqs :
        (Done(r) /\ handler[r] \in VerifyHandlers /\ result[r] # "OK")
            => consumes[r] = 0 /\ entry[r] \in walletNonceMap

\* the accounts bound to address a whose status is not deleted
Owners(tbl, a) ==
    {u \in Rows(tbl) : tbl[u].WalletAddress = a /\ tbl[u].Status # UserStatusDeleted}

\* C6: an address is bound to at most one account that is not deleted, however
\* verify and bind requests are interleaved.
OneOwnerPerAddress ==
    \A a \in LowerAddrs : Cardinality(Owners(users, a)) <= 1

\* the accounts other than u that are bound to address a
Others(tbl, u, a) == {x \in Rows(tbl) \ {u} : tbl[x].WalletAddress = a}

\* account u holds address a
Holds(tbl, u, a) ==
    tbl[u].WalletAddress # NoAddr /\ ToLower(tbl[u].WalletAddress) = a

\* the table once the bindings of the deleted owners of a are cleared
Cleared(tbl, a) ==
    [u \in UserIds |->
        IF tbl[u].exists /\ tbl[u].WalletAddress = a /\ tbl[u].Status = UserStatusDeleted
        THEN [tbl[u] EXCEPT !.WalletAddress = NoAddr]
        ELSE tbl[u]]

\* C7: a bind by caller U for address A, challenge and signature verified, is
\* answered AddressAlreadyBound, and no binding changes, when A is bound to an
\* account other than U that is not deleted and U does not hold A; it succeeds
\* and binds A to U when that other account is deleted.
BindRespectsOwner ==
    \A r \in Reqs :
        (Done(r) /\ handler[r] = "WalletBind") =>
            LET U == user[r].Id
                A == addr[r]
                B == before[r]
            IN  /\ (Others(B, U, A) \cap Owners(B, A) # {} /\ ~Holds(B, U, A))
                       => result[r] = "AddressAlreadyBound" /\ users = B
                /\ (Others(B, U, A) # {} /\ Others(B, U, A) \cap Owners(B, A) = {})
                       => /\ result[r] = "OK"
                          /\ users = [Cleared(B, A) EXCEPT ![U].WalletAddress = A]

\* a bind refused because an account that is not deleted holds the address
BindRespectsOwnerWitness ==
    \E r \in Reqs :
        /\ Done(r) /\ handler[r] = "WalletBind"
        /\ result[r] = "AddressAlreadyBound"
        /\ Others(before[r], user[r].Id, addr[r]) \cap Owners(before[r], addr[r]) # {}

\* a bind that took the address from a deleted account (the second half of C7)
BindFromDeleted ==
    \E r \in Reqs :
        /\ Done(r) /\ handler[r] = "WalletBind" /\ result[r] = "OK"
        /\ Others(before[r], user[r].Id, addr[r]) # {}

\* findOrCreateWalletUser has returned to request r
Returned(r) ==
    handler[r] \in VerifyHandlers /\ pc[r] \in {"consume", "session", "consume2", "done"}

\* The resolution of request r follows the priority order; `unbound` is the
\* user table an UnboundAddress answer must leave.
Priority(r, unbound) ==
    LET A == addr[r]
        B == before[r]
        C == Cleared(B, A)
    IN  IF Owners(B, A) # {}
        THEN /\ \E x \in Owners(B, A) : user[r] = Fill(B, x)
             /\ users = B
             /\ result[r] # "UnboundAddress"
        ELSE IF isRootAllowed(config, A)
        THEN /\ users = [C EXCEPT ![RootId].WalletAddress = A]
             /\ user[r] = Fill(users, RootId)
             /\ result[r] # "UnboundAddress"
        ELSE IF config.WalletAutoRegisterEnabled
        THEN IF FreeIds(B) = {}
             THEN Done(r) /\ result[r] = "InsertFailed" /\ users = C
             ELSE \E id \in FreeIds(B) :
                     /\ users = Insert(C, id, A)
                     /\ user[r] = [Id |-> id, Status |-> UserStatusEnabled,
                                   Role |-> RoleCommonUser, WalletAddress |-> A]
                     /\ result[r] # "UnboundAddress"
        ELSE Done(r) /\ result[r] = "UnboundAddress" /\ users = unbound

\* C8 as stated: bound account (not deleted), else root wallet, else
\* auto-registration, else UnboundAddress with no account created or modified.
PriorityNoChange ==
    \A r \in Reqs : Returned(r) => Priority(r, before[r])

\* C8, amended: as above, but the UnboundAddress answer leaves the table with
\* the binding of a deleted owner of the address cleared.
PriorityOrder ==
    \A r \in Reqs : Returned(r) => Priority(r, Cleared(before[r], addr[r]))

\* UnboundAddress for an address a deleted account held: its binding is gone
PriorityOrderWitness ==
    \E r \in Reqs :
        /\ Returned(r) /\ Done(r) /\ result[r] = "UnboundAddress"
        /\ Cleared(before[r], addr[r]) # before[r]
        /\ users = Cleared(before[r], addr[r])

\* the answers of a request whose resolution returned no account
ResolutionErrors == {"UnboundAddress", "InsertFailed", "RecordNotFound"}

\* findOrCreateWalletUser has returned an account to request r: user[r]
Resolves(r) == Returned(r) /\ ~(Done(r) /\ result[r] \in ResolutionErrors)

\* C9: a verify request whose resolved account is not enabled is answered
\* AccountDisabled: no session, no token, and the challenge is not consumed.
DisabledIsRejected ==
    \A r \in Reqs :
        Resolves(r) =>
            IF user[r].Status = UserStatusEnabled
            THEN ~(Done(r) /\ result[r] = "AccountDisabled")
            ELSE /\ Done(r)
                 /\ result[r] = "AccountDisabled"
                 /\ ~saved[r]
                 /\ token[r] = NoToken
                 /\ consumes[r] = 0
                 /\ entry[r] \in walletNonceMap

\* a request answered AccountDisabled, for a banned account
DisabledIsRejectedWitness ==
    \E r \in Reqs :
        /\ Done(r) /\ handler[r] \in VerifyHandlers
        /\ result[r] = "AccountDisabled"
        /\ user[r].Status = UserStatusDisabled

\* the account the token presented to the refresh names
Subject(tok) == users[tok.UserID]

\* the step is a refresh that presented a token the codec accepts
Refreshed ==
    /\ refresh'.count > refresh.count
    /\ refresh'.token # NoToken
    /\ ~VerifyWalletJWT(config, refresh'.token, now).err

\* C10: a refresh with a valid token succeeds only if the token's user exists,
\* is enabled and is bound to the token's address (compared in lower case); with
\* no binding or another binding it is answered AddressMismatch, and neither a
\* session nor a token is produced.
RefreshNeedsBinding ==
    [][Refreshed =>
          LET tok == refresh'.token
              u == Subject(tok)
              bound == u.WalletAddress # NoAddr
                         /\ ToLower(u.WalletAddress) = ToLower(tok.WalletAddress)
          IN  /\ refresh'.err = ""
                    => u.exists /\ u.Status = UserStatusEnabled /\ bound
              /\ (u.exists /\ ~bound)
                    => /\ refresh'.err = "AddressMismatch"
                       /\ refresh'.newToken = NoToken
                       /\ refresh'.session = NoId
                       /\ sessions' = sessions
                       /\ tokens' = tokens]_vars

\* a refresh answered AddressMismatch for an account bound to another address
RefreshNeedsBindingWitness ==
    /\ refresh.err = "AddressMismatch"
    /\ refresh.token \in tokens
    /\ users[refresh.token.UserID].WalletAddress \notin {NoAddr, refresh.token.WalletAddress}

\* a refresh answered AddressMismatch for an account with no binding
RefreshUnbound ==
    /\ refresh.err = "AddressMismatch"
    /\ refresh.token \in tokens
    /\ users[refresh.token.UserID].WalletAddress = NoAddr

\* the step is a refresh request
Refreshing == refresh'.count > refresh.count

\* C11: a refresh request, whether it succeeds or fails, leaves the nonce store
\* as it was: no challenge is created, expired away or deleted.
RefreshKeepsStore ==
    [][Refreshing => walletNonceMap' = walletNonceMap /\ issued' = issued]_vars

\* a refresh has been served and the store holds a challenge that has expired
\* and one that has not
RefreshKeepsStoreWitness ==
    /\ refresh.count > 0
    /\ \E e \in walletNonceMap : now > e.ExpireAt
    /\ \E e \in walletNonceMap : now <= e.ExpireAt

\* the last Verify was given the token of mint m
Verifies(m) == verified.called /\ ~m.err /\ verified.token = m.token

RoundTripToTheSecond ==
    \A m \in minted :
        (Verifies(m) /\ verified.secrets = m.secrets) =>
            IF verified.at < NewNumericDate(m.expiresAt)
            THEN ~verified.err /\ verified.claims = m.token
            ELSE verified.err

\* s is one of the secrets
Among(s, secrets) == \E i \in 1..Len(secrets) : secrets[i] = s

\* C13: an unexpired token issued while S1 was the primary secret verifies
\* under primary S2 with S1 among the fallbacks; an unexpired token issued
\* under S2 fails once S2 is neither the primary nor a fallback.
RotationKeepsFallback ==
    \A m \in minted :
        (Verifies(m) /\ verified.at < m.token.ExpiresAt) =>
            \A s1, s2 \in {"S1", "S2"} :
                /\ (/\ s1 # s2
                    /\ Head(m.secrets) = s1
                    /\ Head(verified.secrets) = s2
                    /\ Among(s1, Tail(verified.secrets)))
                       => ~verified.err /\ verified.claims = m.token
                /\ (Head(m.secrets) = s2 /\ ~Among(s2, verified.secrets))
                       => verified.err

\* a token minted under S1 has verified under primary S2, fallback S1
RotationKeepsFallbackWitness ==
    \E m \in minted :
        /\ Verifies(m)
        /\ verified.at < m.token.ExpiresAt
        /\ m.secrets = <<"S1">>
        /\ verified.secrets = <<"S2", "S1">>
        /\ ~verified.err

\* a token minted under S2 was refused once S2 had been removed
RotationRemoved ==
    \E m \in minted :
        /\ Verifies(m)
        /\ verified.at < m.token.ExpiresAt
        /\ Head(m.secrets) = "S2"
        /\ ~Among("S2", verified.secrets)
        /\ verified.err

\* the request passes the validation of its inputs
WellFormed(q) == q.ok /\ IsValidEthAddress(q.Address) /\ q.Signature # NoSig

\* a chain allow-list is configured
Listed == Len(config.WalletAllowedChains) > 0

\* the allow-list refuses the chain id
Refused(c) == Listed /\ c # "" /\ ~ChainAllowed(config, c)

\* C14: under a chain allow-list a verify request with a chain id that is not
\* listed is answered ChainNotAllowed, whatever its signature, and never gets
\* as far as consuming the challenge; a request without a chain id passes the
\* chain check.
ChainIsChecked ==
    /\ config.WalletLoginEnabled =>
          \A q \in ChainBodies :
              WellFormed(q) =>
                  IF Refused(q.ChainId)
                  THEN Answer(q) = "ChainNotAllowed"
                  ELSE Answer(q) # "ChainNotAllowed"
    /\ \A r \in Reqs : pc[r] # "idle" => ~Refused(chain[r])

\* the wallet's own signature over its live challenge, sent with a chain id
\* that is not listed
ChainIsCheckedWitness ==
    \E c \in issued :
        LET q == [Honest(c) EXCEPT !.ChainId = OtherChain]
        IN  /\ GetWalletNonce(walletNonceMap, q.Address, now).ok
            /\ Answer([q EXCEPT !.ChainId = ""]) = ""
            /\ Refused(q.ChainId)
            /\ Answer(q) = "ChainNotAllowed"

\* a request without a chain id has logged in under the allow-list
EmptyChainPasses ==
    \E r \in Reqs :
        Listed /\ Done(r) /\ handler[r] \in VerifyHandlers /\ result[r] = "OK" /\ chain[r] = ""

\* wallet login is switched off
FeatureOff == ~config.WalletLoginEnabled

\* every issuance, verify and bind request is answered FeatureDisabled
DisabledAnswers ==
    /\ \A a \in Addrs \cup {BadAddr} :
          /\ WalletNonceError(config, a) = "FeatureDisabled"
          /\ WalletChallengeProtoError(config, users, a) = "FeatureDisabled"
    /\ \A q \in ChainBodies :
          /\ Answer(q) = "FeatureDisabled"
          /\ \A id \in UserIds \cup {NoId} :
                BindRejection(config, walletNonceMap, users, q, id, now) = "FeatureDisabled"

\* C15: while wallet login is off, issuance, verify and bind requests are
\* answered FeatureDisabled, and the nonce store, the user table and the
\* sessions stay as they were.
DisabledChangesNothing ==
    /\ [](FeatureOff => DisabledAnswers)
    /\ [][(FeatureOff /\ config' = config)
             => UNCHANGED <<walletNonceMap, issued, users, sessions, tokens, auths, reqVars>>]_vars

\* login was switched off on a server that holds a bound wallet and a saved
\* session, and time has passed
DisabledChangesNothingWitness ==
    /\ FeatureOff
    /\ \E u \in Rows(users) : users[u].WalletAddress # NoAddr
    /\ sessions # {}
    /\ issued # {}
    /\ now > 0
    /\ Quiet

\* C16: every verify request that reports success returns a token, for
\* WalletLogin and for WalletVerifyProto, also when the primary secret is empty.
SuccessHasToken ==
    \A r \in Reqs :
        (Done(r) /\ handler[r] \in VerifyHandlers /\ result[r] = "OK")
            => token[r] # NoToken

\* C17: ConsumeWalletNonce is called exactly once in every successful verify
\* or bind request, and never in a request that fails.
ConsumesOnce ==
    \A r \in Reqs :
        Done(r) => consumes[r] = (IF result[r] = "OK" THEN 1 ELSE 0)

\* the first half of C17 alone: one call in every successful request
SuccessConsumesOnce ==
    \A r \in Reqs : (Done(r) /\ result[r] = "OK") => consumes[r] = 1

\* C18: a bind request changes a binding only when the caller has a session
\* and the request passed challenge and signature verification; on success
\* exactly the caller's account gains the binding and the challenge of the
\* address is consumed; a request without a session changes nothing.
BindNeedsSession ==
    /\ \A r \in Reqs :
          (handler[r] = "WalletBind" /\ pc[r] # "idle") =>
              LET U == user[r].Id
                  A == addr[r]
                  B == before[r]
                  bound == [Cleared(B, A) EXCEPT ![U].WalletAddress = A]
              IN  /\ U \in Rows(B)
                  /\ entry[r] # NoEntry /\ entry[r].key = A
                  /\ users \in {B, Cleared(B, A), bound}
                  /\ (Done(r) /\ result[r] = "OK") =>
                         /\ users = bound
                         /\ consumes[r] = 1
                         /\ MapRows(walletNonceMap, A) = {}
                  /\ (Done(r) /\ result[r] # "OK") =>
                         /\ users = B
                         /\ consumes[r] = 0
                         /\ entry[r] \in walletNonceMap
    /\ \A q \in Bodies :
          LET e == BindRejection(config, walletNonceMap, users, q, NoId, now)
          IN  e # "" /\ (Answer(q) = "" => e = "Unauthorized")

\* a bind has succeeded and changed the caller's binding, and the verified
\* body of another wallet would be refused without a session
BindNeedsSessionWitness ==
    /\ \E r \in Reqs :
          /\ Done(r) /\ handler[r] = "WalletBind" /\ result[r] = "OK"
          /\ users # before[r]
    /\ \E q \in Bodies :
          /\ Answer(q) = ""
          /\ BindRejection(config, walletNonceMap, users, q, NoId, now) = "Unauthorized"

\* an account is bound to the address, auto-registration is on, or the
\* address is on the root list
Eligible(cfg, tbl, a) ==
    \/ IsWalletAddressAlreadyTaken(tbl, ToLower(a))
    \/ cfg.WalletAutoRegisterEnabled
    \/ isRootAllowed(cfg, ToLower(a))

\* C19: an issuance request for an address that is not eligible stores no
\* challenge, whichever handler serves it.
IneligibleGetsNoChallenge ==
    [][\A a \in Addrs :
          ~Eligible(config, users, a) =>
              /\ \A e \in walletNonceMap' \ walletNonceMap : e.key # ToLower(a)
              /\ \A c \in issued' \ issued : KeyOf(c) # ToLower(a)]_vars

\* C20: a well-formed verify request with no live challenge is answered
\* NonceInvalid whatever its chain id; one whose nonce differs from the stored
\* one is answered NonceInvalid; one without a nonce is checked against the
\* stored challenge.
NonceBeforeChain ==
    config.WalletLoginEnabled =>
        \A q \in ChainBodies :
            WellFormed(q) =>
                LET got == GetWalletNonce(walletNonceMap, q.Address, now)
                IN  IF ~got.ok \/ (q.Nonce # NoNonce /\ q.Nonce # got.entry.Nonce)
                    THEN Answer(q) = "NonceInvalid"
                    ELSE Answer(q) # "NonceInvalid"

(***************************************************************************)
(* C21: right after every issuance the store holds no row that expired     *)
(* before the current time, whatever its address; the row just issued is   *)
(* in the store, and so is every unexpired row of another address.         *)
(***************************************************************************)
Issuing == issued' # issued

SweepOnIssue ==
    [][Issuing =>
         /\ \A e \in walletNonceMap' : ~(e.ExpireAt < now')
         /\ \E e \in walletNonceMap' :
                /\ e.Nonce = NextNonce
                /\ [Nonce |-> e.Nonce, Message |-> e.Message] \in issued'
         /\ \A e \in walletNonceMap :
                (e.ExpireAt >= now /\ \A c \in issued' \ issued : KeyOf(c) # e.key)
                    => e \in walletNonceMap']_vars

\* an issuance for one address swept the expired challenge of another and
\* stored its own
SweepOnIssueWitness ==
    \E c \in issued, d \in issued :
        /\ c.Nonce < d.Nonce
        /\ KeyOf(c) # KeyOf(d)
        /\ c.Message.IssuedAt + getWalletNonceTTL(config) < d.Message.IssuedAt
        /\ \A e \in walletNonceMap : e.Nonce = d.Nonce

\* the deleted accounts that hold address a
DeletedOwners(tbl, a) ==
    {u \in Rows(tbl) : tbl[u].WalletAddress = a /\ tbl[u].Status = UserStatusDeleted}

(***************************************************************************)
(* C22: the resolution of an address terminates whatever the table holds:  *)
(* it starts again once for each deleted account that held the address     *)
(* when the request arrived and never more, also when several deleted      *)
(* accounts hold the address and when the update clearing a binding does   *)
(* not take effect.                                                        *)
(***************************************************************************)
RecursionBounded ==
    \A r \in Reqs :
        handler[r] \in VerifyHandlers
            => depth[r] <= Cardinality(DeletedOwners(before[r], addr[r])) + 1

(***************************************************************************)
(* C23: the expiry a challenge handler reports is the expiry stored with   *)
(* the challenge (to the second the response is written in), and that is   *)
(* the time of issuance plus the configured TTL, or plus ten minutes when  *)
(* the configured TTL is not positive.                                     *)
(***************************************************************************)
ExpiryReported ==
    [][Issuing =>
         \A e \in walletNonceMap' :
            e.Nonce = NextNonce =>
                /\ e.ExpireAt = now + (IF config.WalletNonceTTLMinutes <= 0
                                       THEN 10 * Minute
                                       ELSE config.WalletNonceTTLMinutes * Minute)
                /\ ReportedExpiry(config, now) = RFC3339(e.ExpireAt)]_vars

\* the secrets under which token tok verifies at time t, by their place in
\* the list
Valid(tok, secrets, t) ==
    {i \in 1..Len(secrets) :
        secrets[i] # "" /\ tok.key = secrets[i] /\ t < tok.ExpiresAt}

(***************************************************************************)
(* C24: Verify goes through the primary secret and then the fallback       *)
(* secrets, passing over the empty ones; it returns the claims of the      *)
(* token when the token is signed under one of them and unexpired, and     *)
(* fails when there is none, all secrets being empty included.             *)
(***************************************************************************)
VerifyFirstValid ==
    verified.called =>
        IF Valid(verified.token, verified.secrets, verified.at) # {}
        THEN ~verified.err /\ verified.claims = verified.token
        ELSE verified.err /\ verified.claims = NoToken

\* a token has verified under a fallback secret, the primary one being empty
VerifyFirstValidWitness ==
    /\ verified.called
    /\ Head(verified.secrets) = ""
    /\ ~verified.err

\* a token was refused while every configured secret was empty
VerifyAllEmpty ==
    /\ verified.called
    /\ \A i \in 1..Len(verified.secrets) : verified.secrets[i] = ""
    /\ verified.token # NoToken
    /\ verified.err

(***************************************************************************)
(* C25: Issue fails, and returns no token, exactly when the primary secret *)
(* is empty, whatever the fallback secrets are; a token it returns is      *)
(* signed with the primary secret of that moment and verifies under it.    *)
(***************************************************************************)
IssueUnderPrimary ==
    \A m \in minted :
        /\ m.err <=> Head(m.secrets) = ""
        /\ m.err => m.token = NoToken
        /\ ~m.err =>
               /\ m.token.key = Head(m.secrets)
               /\ LET v == verifyWithSecrets(m.token, <<Head(m.secrets)>>, m.at)
                  IN  ~v.err /\ v.claims = m.token

\* an issuance failed for want of a primary secret while a fallback secret
\* was configured
IssueUnderPrimaryWitness ==
    \E m \in minted : m.err /\ m.secrets = <<"", "S1">>

\* request r calls ConsumeWalletNonce in this step
Consuming(r) == consumes'[r] = consumes[r] + 1

(***************************************************************************)
(* C26: a call of ConsumeChallenge removes the row of the lower-cased      *)
(* address and no other row; when the address has no row the store stays   *)
(* as it is, and a second call in a row changes nothing more.              *)
(***************************************************************************)
ConsumeFrame ==
    [][\A r \in Reqs :
          Consuming(r) =>
              /\ walletNonceMap' = {e \in walletNonceMap : e.key # ToLower(addr[r])}
              /\ MapRows(walletNonceMap, ToLower(addr[r])) = {}
                     => walletNonceMap' = walletNonceMap
              /\ consumes[r] >= 1 => walletNonceMap' = walletNonceMap
              /\ ConsumeWalletNonce(walletNonceMap', addr[r]) = walletNonceMap']_vars

\* a login has consumed its challenge twice and the challenge of another
\* address is still stored
ConsumeFrameWitness ==
    \E r \in Reqs :
        /\ consumes[r] = 2
        /\ \E e \in walletNonceMap : e.key # ToLower(addr[r])

(***************************************************************************)
(* C27: the store knows an address whatever the case of its letters: the   *)
(* challenge issued under one spelling is the one a lookup under any other *)
(* spelling returns while it is live, and the one a consume under any      *)
(* other spelling removes; its message holds the address as it was spelled *)
(* at issuance.                                                            *)
(***************************************************************************)
CaseInsensitive ==
    \A c \in issued : \A e \in walletNonceMap :
        e.Nonce = c.Nonce =>
            /\ e.Message = c.Message
            /\ \A a \in Addrs :
                   ToLower(a) = KeyOf(c) =>
                       /\ ~After(now, e.ExpireAt)
                              => GetWalletNonce(walletNonceMap, a, now) =
                                     [ok |-> TRUE, entry |-> e]
                       /\ \A x \in ConsumeWalletNonce(walletNonceMap, a) :
                              x.Nonce # c.Nonce

\* a challenge issued for 0xAA is found under 0xaa, with 0xAA in its message
CaseInsensitiveWitness ==
    \E c \in issued :
        /\ c.Message.Address = "0xAA"
        /\ LET got == GetWalletNonce(walletNonceMap, "0xaa", now)
           IN  /\ got.ok
               /\ got.entry.Nonce = c.Nonce
               /\ got.entry.Message.Address = "0xAA"

(***************************************************************************)
(* C28: Recover rejects as malformed every signature that is not hex or    *)
(* does not decode to 65 bytes; of a 65-byte signature it takes a last     *)
(* byte of 27 or 28 as recovery id 0 or 1 and a last byte of 0 or 1 as it  *)
(* is, and then recovers.                                                  *)
(***************************************************************************)
RecoverNormalizes ==
    recovered.called =>
        LET s == recovered.signature
            rec == [err |-> recovered.err, addr |-> recovered.addr]
        IN  IF ~s.hex \/ s.len # 65
            THEN rec = [err |-> "MalformedSignature", addr |-> ""]
            ELSE /\ s.v \in {27, 28} => rec = SigToPub(recovered.message, s, s.v - 27)
                 /\ s.v \in {0, 1} => rec = SigToPub(recovered.message, s, s.v)

\* a signature written with a last byte of 27 has recovered its signer
RecoverNormalizesWitness ==
    /\ recovered.called
    /\ recovered.signature.v = 27
    /\ recovered.err = ""
    /\ recovered.addr = recovered.signature.signer

\* challenge c was issued for the address of request r after the challenge r
\* verified, and none was issued for it since
Newer(r, c) ==
    /\ KeyOf(c) = addr[r]
    /\ c.Nonce > entry[r].Nonce
    /\ ~Overwritten(c)

(***************************************************************************)
(* C29: a successful request removes only the challenge it verified: a     *)
(* challenge issued for the same address after the request's signature     *)
(* check is in the store when the request has completed.                   *)
(***************************************************************************)
ConsumesOnlyVerified ==
    \A r \in Reqs :
        (Done(r) /\ result[r] = "OK") =>
            \A c \in issued :
                Newer(r, c) => \E e \in walletNonceMap : e.Nonce = c.Nonce

(***************************************************************************)
(* C29, amended: each ConsumeChallenge call of a request removes whatever  *)
(* challenge the store holds for the request's address, a challenge issued *)
(* after the request's signature check included.                           *)
(***************************************************************************)
ConsumesByAddress ==
    [][\A r \in Reqs :
          Consuming(r) =>
              \A c \in issued :
                  KeyOf(c) = addr[r] => \A e \in walletNonceMap' : e.Nonce # c.Nonce]_vars

\* a request has completed and the challenge issued for its address after
\* its signature check is gone
ConsumesByAddressWitness ==
    \E r \in Reqs :
        /\ Done(r)
        /\ result[r] = "OK"
        /\ \E c \in issued :
               Newer(r, c) /\ \A e \in walletNonceMap : e.Nonce # c.Nonce

(***************************************************************************)
(* C30: under a chain allow-list, a request that has passed verification   *)
(* answers a challenge whose message names no chain or a listed chain, and *)
(* the chain id of the request, when it has one, is the chain id of that   *)
(* message.                                                                *)
(***************************************************************************)
ChainIsBound ==
    \A r \in Reqs :
        (pc[r] # "idle" /\ Len(config.WalletAllowedChains) > 0) =>
            /\ \/ entry[r].Message.ChainId = ""
               \/ ChainAllowed(config, entry[r].Message.ChainId)
            /\ chain[r] # "" => chain[r] = entry[r].Message.ChainId

\* the first half alone: the message of the verified challenge names no chain
\* or a listed one
SignedChainIsListed ==
    \A r \in Reqs :
        (pc[r] # "idle" /\ Len(config.WalletAllowedChains) > 0) =>
            \/ entry[r].Message.ChainId = ""
            \/ ChainAllowed(config, entry[r].Message.ChainId)

\* the second half alone: the chain id of the request is the one of the message
RequestChainIsSigned ==
    \A r \in Reqs :
        (pc[r] # "idle" /\ Len(config.WalletAllowedChains) > 0 /\ chain[r] # "")
            => chain[r] = entry[r].Message.ChainId

(***************************************************************************)
(* C31: while wallet login is switched off, no request of any flow saves a *)
(* session or issues a token.                                              *)
(***************************************************************************)
OffMeansNoLogin ==
    [][~config.WalletLoginEnabled =>
          /\ sessions' = sessions
          /\ tokens' = tokens
          /\ refresh' # refresh =>
                 refresh'.session = NoId /\ refresh'.newToken = NoToken]_vars

\* the same of every flow but the refresh, which also issues no challenge
OffStopsAllButRefresh ==
    [][(~config.WalletLoginEnabled /\ refresh' = refresh) =>
          sessions' = sessions /\ tokens' = tokens /\ issued' = issued]_vars

(***************************************************************************)
(* C32: a verify request that ends in failure leaves the user table as it  *)
(* was when the request arrived: no account created, no binding added to   *)
(* the root account, no binding cleared.                                   *)
(***************************************************************************)
FailureKeepsUsers ==
    \A r \in Reqs :
        (Done(r) /\ handler[r] \in VerifyHandlers /\ result[r] # "OK")
            => users = before[r]

\* the failures in which the account resolution was never entered do keep it
FailureBeforeResolutionKeepsUsers ==
    \A r \in Reqs :
        (Done(r) /\ handler[r] \in VerifyHandlers /\ result[r] # "OK" /\ depth[r] = 0)
            => users = before[r]

\* the same of the requests the resolution itself turns away
RejectedKeepsUsers ==
    \A r \in Reqs :
        (/\ Done(r)
         /\ handler[r] \in VerifyHandlers
         /\ result[r] \in {"AccountDisabled", "UnboundAddress"})
            => users = before[r]

(***************************************************************************)
(* C33: the token a successful refresh returns names the user id of the    *)
(* presented token and its wallet address in lower case, so a chain of     *)
(* refreshes never changes the identity the token names.                   *)
(***************************************************************************)
RefreshKeepsIdentity ==
    (refresh.count > 0 /\ refresh.err = "") =>
        /\ refresh.newToken # NoToken
        /\ refresh.newToken.UserID = refresh.token.UserID
        /\ refresh.newToken.WalletAddress = ToLower(refresh.token.WalletAddress)

\* a refresh has succeeded for a user other than the root user
RefreshKeepsIdentityWitness ==
    /\ refresh.count > 0
    /\ refresh.err = ""
    /\ refresh.token.UserID # RootId
    /\ refresh.newToken.UserID = refresh.token.UserID

====
